---- MODULE Spec2Model ----
(***************************************************************************)
(* Timed-punishment subsystem of The Cascade Bot:                          *)
(*   cogs/moderation/punishment_system.py  (warn, mute, kick, ban,         *)
(*                                          schedule_unmute)               *)
(*   core/utils.py                         (parse_duration)                *)
(*   core/database.py                      (log_moderation_action,         *)
(*                                          get_user, execute)             *)
(* Every command handler is an asyncio coroutine: the code between two     *)
(* awaits runs atomically, and handlers of different commands interleave   *)
(* at their awaits.  One action of the model is one such atomic segment.   *)
(***************************************************************************)
EXTENDS Integers, Sequences, FiniteSets, TLC

\* ------------------------------------------------------------------ bounds
NumCmds == 2          \* command invocations in one behaviour
MaxActive == 1        \* handlers in flight (suspended at an await) together
MaxTime == 2          \* clock ticks in one behaviour
TickSeconds == 1800   \* seconds in one clock tick
\* warn commands issued, and in flight at once, where warns are interleaved
WarnCmds == 3
WarnActive == 2
MaxPending == 2       \* schedule_unmute coroutines behind their sleep
MaxLen == 4           \* characters of a string given to parse_duration
\* mute commands issued, and in flight at once, where mutes are interleaved
MuteCmds == 2
MuteActive == 2
MaxMessages == 3      \* inbound messages in one behaviour

\* --------------------------------------------------------- program constants
MaxMuteSeconds == 2419200
MaxTimedeltaDays == 999999999

\* ------------------------------------------------------------ the guild
BotId == 0
Humans == {1, 2}
Ranks == {1, 2}
NoRow == -1           \* get_user returned None
NoRole == 0           \* mute_role is None
NoId == 0             \* no infraction id yet
Null == -1            \* SQL NULL in moderation_logs.duration
TextChannels == <<1>>
VoiceChannels == <<2>>
Kinds == {"warn", "mute", "kick", "ban"}
Guilds == {1, 2}
NoConfig == [exists |-> FALSE]
Msgs == 1..MaxMessages
\* settings.COMMAND_PREFIX is a string, and a string cannot be called
command_prefix_callable == FALSE
Waiting == [pc |-> "waiting", author_bot |-> FALSE, prefixed |-> FALSE,
            process_commands |-> FALSE, dispatched |-> FALSE,
            raised |-> "nothing"]
NoStats == [messages_processed |-> 0, commands_executed |-> 0]
Cmds == {1, 2}        \* handler coroutines that can be in flight together

VARIABLES
    cmd,        \* per coroutine: its position, locals and what it did so far
    issued,     \* number of commands invoked so far
    members,    \* ids of the members currently in the guild
    top_role,   \* member id -> rank of the member's top role
    owner,      \* id of the guild owner
    roles,      \* guild.roles: sequence of [id, mute, byBot]
    held,       \* member id -> set of role ids
    modlog,     \* rows of moderation_logs, in insertion order
    users,      \* users.warnings by user id, NoRow when there is no row
    pending,    \* schedule_unmute coroutines suspended in their sleep
    removals,   \* role removals made by schedule_unmute: [user, at, until]
    muteUntil,  \* member id -> latest expiry (issue time + duration) of the
                \* mutes confirmed for the member so far, 0 when none
    overrides,  \* <<channel, role>> permission overrides set by the bot
    now,        \* wall clock, in seconds
    duration_str,   \* argument of a direct call of parse_duration
    parsed,         \* what that call gave
    server_config,  \* rows of server_config by guild id, NoConfig when none
    cache_manager,  \* bot.cache_manager: "None" or "CacheManager"
    inbox,          \* inbound messages and what on_message did with each
    performance_stats   \* bot.performance_stats counters

vars == <<cmd, issued, members, top_role, owner, roles, held, modlog, users,
          pending, removals, muteUntil, overrides, now, duration_str, parsed,
          server_config, cache_manager, inbox, performance_stats>>

guildVars == <<members, roles, held, overrides>>
storeVars == <<modlog, users>>
schedVars == <<pending, removals, muteUntil>>
\* what no punishment handler and no scheduled unmute writes
gatewayVars == <<cache_manager, inbox, performance_stats>>
envVars == <<top_role, owner, duration_str, parsed, server_config,
             gatewayVars>>

\* ------------------------------------------------------- parse_duration
Digits == {"0", "1", "2", "3", "4", "5", "6", "7", "8", "9"}

DigitVal(ch) ==
    CASE ch = "0" -> 0 [] ch = "1" -> 1 [] ch = "2" -> 2 [] ch = "3" -> 3
      [] ch = "4" -> 4 [] ch = "5" -> 5 [] ch = "6" -> 6 [] ch = "7" -> 7
      [] ch = "8" -> 8 [] ch = "9" -> 9

\* str.lower() on the characters a duration string is made of
LowerChar(ch) ==
    CASE ch = "D" -> "d" [] ch = "H" -> "h" [] ch = "M" -> "m"
      [] ch = "S" -> "s" [] OTHER -> ch

Lower(s) == [i \in 1..Len(s) |-> LowerChar(s[i])]

RECURSIVE LStrip(_)
LStrip(s) == IF s # <<>> /\ Head(s) = " " THEN LStrip(Tail(s)) ELSE s

RECURSIVE RStrip(_)
RStrip(s) ==
    IF s # <<>> /\ s[Len(s)] = " " THEN RStrip(SubSeq(s, 1, Len(s) - 1)) ELSE s

Strip(s) == RStrip(LStrip(s))

\* first index >= pos whose character is not a digit (Len(s)+1 if none)
RECURSIVE DigitsEnd(_, _)
DigitsEnd(s, pos) ==
    IF pos <= Len(s) /\ s[pos] \in Digits THEN DigitsEnd(s, pos + 1) ELSE pos

\* int() of the digits s[from..to]
RECURSIVE IntOf(_, _, _)
IntOf(s, from, to) ==
    IF to < from THEN 0 ELSE IntOf(s, from, to - 1) * 10 + DigitVal(s[to])

\* one optional group (?:(\d+)<unit>)? tried at position pos
MatchGroup(s, pos, unit) ==
    LET e == DigitsEnd(s, pos) IN
    IF e > pos /\ e <= Len(s) /\ s[e] = unit
    THEN [val |-> IntOf(s, pos, e - 1), next |-> e + 1]
    ELSE [val |-> 0, next |-> pos]

\* variant: the string is matched as typed, without lower()
parse_duration_cased(duration_str_) ==
    LET s == Strip(duration_str_)
        gd == MatchGroup(s, 1, "d")
        gh == MatchGroup(s, gd.next, "h")
        gm == MatchGroup(s, gh.next, "m")
        gs == MatchGroup(s, gm.next, "s")
        rest == gh.val * 3600 + gm.val * 60 + gs.val
    IN  IF gd.val + (rest \div 86400) > MaxTimedeltaDays
        THEN [ok |-> FALSE, secs |-> 0]
        ELSE [ok |-> TRUE, secs |-> gd.val * 86400 + rest]

\* the result is a timedelta (ok, total seconds) or the OverflowError that
\* timedelta() raises and parse_duration does not catch
parse_duration(duration_str_) ==
    LET s == Strip(Lower(duration_str_))
        gd == MatchGroup(s, 1, "d")
        gh == MatchGroup(s, gd.next, "h")
        gm == MatchGroup(s, gh.next, "m")
        gs == MatchGroup(s, gm.next, "s")
        rest == gh.val * 3600 + gm.val * 60 + gs.val
    IN  IF gd.val + (rest \div 86400) > MaxTimedeltaDays
        THEN [ok |-> FALSE, secs |-> 0]
        ELSE [ok |-> TRUE, secs |-> gd.val * 86400 + rest]

\* parse_duration not called yet
NotParsed == [called |-> FALSE, returned |-> "nothing", secs |-> 0]

\* duration arguments given to mute
DurationInputs ==
    { <<"1", "h">>, <<"a", "b", "c">>, <<"2", "9", "d">> }

\* ------------------------------------------------------ coroutine records
IdleCmd ==
    [pc |-> "idle", kind |-> "none", actor |-> 0, target |-> 0,
     dstr |-> <<>>, secs |-> 0, role |-> NoRole, read |-> NoRow,
     infraction |-> NoId, resp |-> <<>>, trace |-> <<>>, chans |-> <<>>,
     t0 |-> 0]

Active(c) == cmd[c].pc \notin {"idle", "done"}

\* a new invocation runs in the lowest coroutine slot that is not in flight
CanInvoke(c, actor, target) ==
    /\ issued < NumCmds
    /\ Cardinality({b \in Cmds : Active(b)}) < MaxActive
    /\ ~Active(c)
    /\ \A b \in Cmds : b < c => Active(b)
    /\ actor \in members
    /\ target \in members

\* the record of a returned handler is kept until the next handler returns
Upd(c, rec) ==
    [b \in Cmds |-> IF b = c THEN rec
                    ELSE IF rec.pc = "done" /\ cmd[b].pc = "done" THEN IdleCmd
                    ELSE cmd[b]]

Has(seq, x) == \E i \in 1..Len(seq) : seq[i] = x

Count(seq, x) == Cardinality({i \in 1..Len(seq) : seq[i] = x})

\* variant: the hierarchy comparison made before the self and bot checks
AuthorityCheck_hierFirst(actor, target) ==
    IF top_role[actor] <= top_role[target] /\ actor # owner THEN "reject_hier"
    ELSE IF target = actor THEN "reject_self"
    ELSE IF target = BotId THEN "reject_bot"
    ELSE "ok"

\* variant: "<" in place of "<=" in the hierarchy comparison
AuthorityCheck_strict(actor, target) ==
    IF target = actor THEN "reject_self"
    ELSE IF target = BotId THEN "reject_bot"
    ELSE IF top_role[actor] < top_role[target] /\ actor # owner
         THEN "reject_hier"
    ELSE "ok"

\* variant: the owner exemption applied to all three checks
AuthorityCheck_ownerBypass(actor, target) ==
    IF actor = owner THEN "ok"
    ELSE IF target = actor THEN "reject_self"
    ELSE IF target = BotId THEN "reject_bot"
    ELSE IF top_role[actor] <= top_role[target] THEN "reject_hier"
    ELSE "ok"

\* the three checks every handler starts with, first match wins
AuthorityCheck(actor, target) ==
    IF target = actor THEN "reject_self"
    ELSE IF target = BotId THEN "reject_bot"
    ELSE IF top_role[actor] <= top_role[target] /\ actor # owner
         THEN "reject_hier"
    ELSE "ok"

Started(kind, actor, target) ==
    [IdleCmd EXCEPT !.kind = kind, !.actor = actor, !.target = target]

Rejected(rec, why) ==
    [rec EXCEPT !.pc = "done", !.resp = Append(@, why),
                !.trace = Append(@, "reject")]

\* the except clauses around the handler body: warn has only
\* "except Exception", mute/kick/ban answer discord.Forbidden separately
Caught(rec, exc) ==
    IF rec.kind # "warn" /\ exc = "forbidden"
    THEN [rec EXCEPT !.pc = "done", !.resp = Append(@, "forbidden"),
                     !.trace = Append(@, "caught_forbidden")]
    ELSE [rec EXCEPT !.pc = "done", !.resp = Append(@, "error"),
                     !.trace = Append(@, "caught_error")]

\* a step of the handler that did not complete
Fail(rec, event) == [rec EXCEPT !.trace = Append(@, event)]

Outcomes == {"ok", "forbidden", "error"}
StoreOutcomes == {"ok", "error"}

\* ------------------------------------------------------------------ warn
\* the handler up to its first await: the three authority checks
WarnStart(c, actor, target) ==
    /\ LET auth == AuthorityCheck(actor, target)
           rec == Started("warn", actor, target)
       IN  cmd' = Upd(c, IF auth # "ok" THEN Rejected(rec, auth)
                         ELSE [rec EXCEPT !.pc = "dm",
                                          !.trace = Append(@, "auth_ok")])
    /\ issued' = issued + 1
    /\ UNCHANGED <<guildVars, storeVars, schedVars, envVars, now>>

Warn(c, actor, target) ==
    /\ CanInvoke(c, actor, target)
    /\ WarnStart(c, actor, target)

\* try: await member.send(embed=...) except discord.Forbidden: pass
\* (warn, mute: before the audit row; kick, ban: before the removal)
SendDM(c) ==
    /\ cmd[c].pc = "dm"
    /\ \E out \in Outcomes :
         LET rec == [cmd[c] EXCEPT !.trace = Append(@, "dm")] IN
         cmd' = Upd(c, IF out = "error" THEN Caught(Fail(rec, "dm_fail"), out)
                       ELSE [rec EXCEPT !.pc = IF rec.kind \in {"kick", "ban"}
                                               THEN "exec" ELSE "log"])
    /\ UNCHANGED <<issued, guildVars, storeVars, schedVars, envVars, now>>

\* variant: the id is taken per user instead of from the table's sequence
log_moderation_action_perUser(user_id, moderator_id, action_type, duration) ==
    Append(modlog,
        [id |-> 1 + Cardinality({i \in 1..Len(modlog) :
                                    modlog[i].user_id = user_id}),
         user_id |-> user_id, moderator_id |-> moderator_id,
         action_type |-> action_type, duration |-> duration])

\* INSERT INTO moderation_logs ... RETURNING id
log_moderation_action(user_id, moderator_id, action_type, duration) ==
    Append(modlog, [id |-> Len(modlog) + 1, user_id |-> user_id,
                    moderator_id |-> moderator_id,
                    action_type |-> action_type, duration |-> duration])

\* variant: the duration local is passed by every handler
LogAction_durationAlways(c) ==
    /\ cmd[c].pc = "log"
    /\ \E out \in StoreOutcomes :
         IF out = "ok"
         THEN /\ modlog' = log_moderation_action(cmd[c].target, cmd[c].actor,
                              cmd[c].kind, cmd[c].secs)
              /\ cmd' = Upd(c, [cmd[c] EXCEPT
                              !.infraction = Len(modlog) + 1,
                              !.trace = Append(@, "log"),
                              !.pc = IF cmd[c].kind = "warn" THEN "getuser"
                                     ELSE "confirm"])
         ELSE /\ modlog' = modlog
              /\ cmd' = Upd(c, Caught(Fail(cmd[c], "log_fail"), out))
    /\ UNCHANGED <<issued, guildVars, users, schedVars, envVars, now>>

\* variant: a failed audit write undoes the platform action
LogAction_rollback(c) ==
    /\ cmd[c].pc = "log"
    /\ \E out \in StoreOutcomes :
         IF out = "ok"
         THEN /\ modlog' = log_moderation_action(cmd[c].target, cmd[c].actor,
                              cmd[c].kind,
                              IF cmd[c].kind = "mute" THEN cmd[c].secs ELSE Null)
              /\ cmd' = Upd(c, [cmd[c] EXCEPT
                              !.infraction = Len(modlog) + 1,
                              !.trace = Append(@, "log"),
                              !.pc = IF cmd[c].kind = "warn" THEN "getuser"
                                     ELSE "confirm"])
              /\ UNCHANGED <<members, held>>
         ELSE /\ modlog' = modlog
              /\ cmd' = Upd(c, Caught(Fail(cmd[c], "log_fail"), out))
              /\ members' = members \cup {cmd[c].target}
              /\ held' = [held EXCEPT ![cmd[c].target] = @ \ {cmd[c].role}]
    /\ UNCHANGED <<issued, roles, overrides, users, schedVars, envVars, now>>

\* infraction_id = await self.bot.db_manager.log_moderation_action(...)
LogAction(c) ==
    /\ cmd[c].pc = "log"
    /\ \E out \in StoreOutcomes :
         IF out = "ok"
         THEN /\ modlog' = log_moderation_action(cmd[c].target, cmd[c].actor,
                              cmd[c].kind,
                              IF cmd[c].kind = "mute" THEN cmd[c].secs ELSE Null)
              /\ cmd' = Upd(c, [cmd[c] EXCEPT
                              !.infraction = Len(modlog) + 1,
                              !.trace = Append(@, "log"),
                              !.pc = IF cmd[c].kind = "warn" THEN "getuser"
                                     ELSE "confirm"])
         ELSE /\ modlog' = modlog
              /\ cmd' = Upd(c, Caught(Fail(cmd[c], "log_fail"), out))
    /\ UNCHANGED <<issued, guildVars, users, schedVars, envVars, now>>

\* user_data = await get_user(member.id); "if user_data:" skips the UPDATE
\* when the user has no row
GetUser(c) ==
    /\ cmd[c].pc = "getuser"
    /\ \E out \in StoreOutcomes :
         cmd' = Upd(c, IF out = "error"
                       THEN Caught(Fail(cmd[c], "read_fail"), out)
                       ELSE [cmd[c] EXCEPT
                               !.read = users[cmd[c].target],
                               !.trace = Append(@, "read"),
                               !.pc = IF users[cmd[c].target] = NoRow
                                      THEN "confirm" ELSE "update"])
    /\ UNCHANGED <<issued, guildVars, storeVars, schedVars, envVars, now>>

\* variant: the counter is written as 1, whatever was read
UpdateWarnings_reset(c) ==
    /\ cmd[c].pc = "update"
    /\ \E out \in StoreOutcomes :
         IF out = "ok"
         THEN /\ users' = [users EXCEPT ![cmd[c].target] =
                              IF @ = NoRow THEN @ ELSE 1]
              /\ cmd' = Upd(c, [cmd[c] EXCEPT !.trace = Append(@, "write"),
                                              !.pc = "confirm"])
         ELSE /\ users' = users
              /\ cmd' = Upd(c, Caught(Fail(cmd[c], "write_fail"), out))
    /\ UNCHANGED <<issued, guildVars, modlog, schedVars, envVars, now>>

\* UPDATE users SET warnings = $1 WHERE id = $2, with $1 = value read + 1
UpdateWarnings(c) ==
    /\ cmd[c].pc = "update"
    /\ \E out \in StoreOutcomes :
         IF out = "ok"
         THEN /\ users' = [users EXCEPT ![cmd[c].target] =
                              IF @ = NoRow THEN @ ELSE cmd[c].read + 1]
              /\ cmd' = Upd(c, [cmd[c] EXCEPT !.trace = Append(@, "write"),
                                              !.pc = "confirm"])
         ELSE /\ users' = users
              /\ cmd' = Upd(c, Caught(Fail(cmd[c], "write_fail"), out))
    /\ UNCHANGED <<issued, guildVars, modlog, schedVars, envVars, now>>

\* await ctx.send(embed=response_embed); after it warn, kick and ban
\* return, mute goes on to schedule the unmute
Confirm(c) ==
    /\ cmd[c].pc = "confirm"
    /\ \E out \in Outcomes :
         /\ cmd' = Upd(c, IF out # "ok"
                          THEN Caught(Fail(cmd[c], "confirm_fail"), out)
                          ELSE [cmd[c] EXCEPT
                                  !.resp = Append(@, "confirm"),
                                  !.trace = Append(@, "confirm"),
                                  !.pc = IF cmd[c].kind = "mute"
                                         THEN "schedule" ELSE "done"])
         /\ muteUntil' =
              IF out = "ok" /\ cmd[c].kind = "mute"
                            /\ cmd[c].t0 + cmd[c].secs > muteUntil[cmd[c].target]
              THEN [muteUntil EXCEPT ![cmd[c].target] = cmd[c].t0 + cmd[c].secs]
              ELSE muteUntil
    /\ UNCHANGED <<issued, guildVars, storeVars, pending, removals, envVars, now>>

\* ------------------------------------------------------------- kick, ban
\* variant: kick without the direct notification
Kick_noDM(c, actor, target) ==
    /\ CanInvoke(c, actor, target)
    /\ LET auth == AuthorityCheck(actor, target)
           rec == Started("kick", actor, target)
       IN  cmd' = Upd(c, IF auth # "ok" THEN Rejected(rec, auth)
                         ELSE [rec EXCEPT !.pc = "exec",
                                          !.trace = Append(@, "auth_ok")])
    /\ issued' = issued + 1
    /\ UNCHANGED <<guildVars, storeVars, schedVars, envVars, now>>

Kick(c, actor, target) ==
    /\ CanInvoke(c, actor, target)
    /\ LET auth == AuthorityCheck(actor, target)
           rec == Started("kick", actor, target)
       IN  cmd' = Upd(c, IF auth # "ok" THEN Rejected(rec, auth)
                         ELSE [rec EXCEPT !.pc = "dm",
                                          !.trace = Append(@, "auth_ok")])
    /\ issued' = issued + 1
    /\ UNCHANGED <<guildVars, storeVars, schedVars, envVars, now>>

Ban(c, actor, target) ==
    /\ CanInvoke(c, actor, target)
    /\ LET auth == AuthorityCheck(actor, target)
           rec == Started("ban", actor, target)
       IN  cmd' = Upd(c, IF auth # "ok" THEN Rejected(rec, auth)
                         ELSE [rec EXCEPT !.pc = "dm",
                                          !.trace = Append(@, "auth_ok")])
    /\ issued' = issued + 1
    /\ UNCHANGED <<guildVars, storeVars, schedVars, envVars, now>>

\* await member.kick(...) / await member.ban(...): the member leaves the
\* guild; the call fails when the bot lacks authority (Forbidden) or the
\* member is already gone (NotFound)
Remove(c) ==
    /\ cmd[c].pc = "exec"
    /\ \E out \in Outcomes :
         /\ out = "ok" => cmd[c].target \in members
         /\ IF out = "ok"
            THEN /\ members' = members \ {cmd[c].target}
                 /\ held' = [held EXCEPT ![cmd[c].target] = {}]
                 /\ cmd' = Upd(c, [cmd[c] EXCEPT !.trace = Append(@, "exec"),
                                                 !.pc = "log"])
            ELSE /\ UNCHANGED <<members, held>>
                 /\ cmd' = Upd(c, Caught(Fail(cmd[c], "exec_fail"), out))
    /\ UNCHANGED <<issued, roles, overrides, storeVars, schedVars, envVars, now>>

\* ------------------------------------------------------------------ mute
\* variant: only a role named exactly "Muted" is taken for the mute role
FindMuteRole_exact ==
    IF \E i \in 1..Len(roles) : roles[i].mute /\ roles[i].byBot
    THEN roles[CHOOSE i \in 1..Len(roles) :
                 /\ roles[i].mute /\ roles[i].byBot
                 /\ \A j \in 1..(i - 1) :
                       ~(roles[j].mute /\ roles[j].byBot)].id
    ELSE NoRole

\* for role in ctx.guild.roles: if "mute" in role.name.lower(): ... break
FindMuteRole ==
    IF \E i \in 1..Len(roles) : roles[i].mute
    THEN roles[CHOOSE i \in 1..Len(roles) :
                 roles[i].mute /\ \A j \in 1..(i - 1) : ~roles[j].mute].id
    ELSE NoRole

\* variant: the cap itself is refused
TooLong_inclusive(secs) == secs >= MaxMuteSeconds

\* if parsed_duration.total_seconds() > 2419200
TooLong(secs) == secs > MaxMuteSeconds

\* the handler up to its first await: authority checks, duration parsing
\* and validation, lookup of the mute role
MuteStart(c, actor, target, duration) ==
    /\ LET auth == AuthorityCheck(actor, target)
           rec == [Started("mute", actor, target) EXCEPT !.dstr = duration]
           parsed_duration == parse_duration(duration)
           mute_role == FindMuteRole
       IN  cmd' = Upd(c,
                IF auth # "ok" THEN Rejected(rec, auth)
                ELSE IF ~parsed_duration.ok
                THEN [rec EXCEPT !.pc = "done", !.trace = Append(@, "raise")]
                ELSE IF parsed_duration.secs = 0
                THEN Rejected(rec, "invalid_duration")
                ELSE IF TooLong(parsed_duration.secs)
                THEN Rejected(rec, "too_long")
                ELSE [rec EXCEPT !.secs = parsed_duration.secs,
                                 !.role = mute_role,
                                 !.trace = Append(@, "auth_ok"),
                                 !.pc = IF mute_role = NoRole
                                        THEN "createrole" ELSE "addrole"])
    /\ issued' = issued + 1
    /\ UNCHANGED <<guildVars, storeVars, schedVars, envVars, now>>

Mute(c, actor, target, duration) ==
    /\ CanInvoke(c, actor, target)
    /\ MuteStart(c, actor, target, duration)

\* the except clauses around the creation of the mute role
RoleCaught(rec, exc) ==
    [rec EXCEPT !.pc = "done",
                !.resp = Append(@, IF exc = "forbidden" THEN "role_forbidden"
                                   ELSE "role_error"),
                !.trace = Append(@, IF exc = "forbidden"
                                    THEN "caught_forbidden" ELSE "caught_error")]

\* variant: the role list is looked at again before the role is created
CreateRole_recheck(c) ==
    /\ cmd[c].pc = "createrole"
    /\ \E out \in Outcomes :
         IF out = "ok" /\ FindMuteRole # NoRole
         THEN /\ roles' = roles
              /\ cmd' = Upd(c, [cmd[c] EXCEPT !.role = FindMuteRole,
                                              !.pc = "addrole"])
         ELSE IF out = "ok"
         THEN /\ roles' = Append(roles, [id |-> Len(roles) + 1, mute |-> TRUE,
                                         byBot |-> TRUE])
              /\ cmd' = Upd(c, [cmd[c] EXCEPT
                              !.role = Len(roles) + 1,
                              !.chans = TextChannels \o VoiceChannels,
                              !.trace = Append(@, "create"),
                              !.pc = "perms"])
         ELSE /\ roles' = roles
              /\ cmd' = Upd(c, RoleCaught(cmd[c], out))
    /\ UNCHANGED <<issued, members, held, overrides, storeVars, schedVars,
                   envVars, now>>

\* mute_role = await ctx.guild.create_role(name="Muted", ...)
CreateRole(c) ==
    /\ cmd[c].pc = "createrole"
    /\ \E out \in Outcomes :
         IF out = "ok"
         THEN /\ roles' = Append(roles, [id |-> Len(roles) + 1, mute |-> TRUE,
                                         byBot |-> TRUE])
              /\ cmd' = Upd(c, [cmd[c] EXCEPT
                              !.role = Len(roles) + 1,
                              !.chans = TextChannels \o VoiceChannels,
                              !.trace = Append(@, "create"),
                              !.pc = "perms"])
         ELSE /\ roles' = roles
              /\ cmd' = Upd(c, RoleCaught(cmd[c], out))
    /\ UNCHANGED <<issued, members, held, overrides, storeVars, schedVars,
                   envVars, now>>

\* variant: a channel whose override cannot be set is skipped
SetPermissions_skip(c) ==
    /\ cmd[c].pc = "perms"
    /\ cmd[c].chans # <<>>
    /\ \E out \in Outcomes :
         /\ overrides' = IF out = "ok"
                         THEN overrides \cup {<<Head(cmd[c].chans), cmd[c].role>>}
                         ELSE overrides
         /\ cmd' = Upd(c, [cmd[c] EXCEPT !.chans = Tail(@)])
    /\ UNCHANGED <<issued, members, roles, held, storeVars, schedVars,
                   envVars, now>>

\* await channel.set_permissions(mute_role, ...) for the next channel of
\* the text-channel loop and then of the voice-channel loop
SetPermissions(c) ==
    /\ cmd[c].pc = "perms"
    /\ cmd[c].chans # <<>>
    /\ \E out \in Outcomes :
         IF out = "ok"
         THEN /\ overrides' = overrides \cup {<<Head(cmd[c].chans), cmd[c].role>>}
              /\ cmd' = Upd(c, [cmd[c] EXCEPT !.chans = Tail(@)])
         ELSE /\ overrides' = overrides
              /\ cmd' = Upd(c, RoleCaught(cmd[c], out))
    /\ UNCHANGED <<issued, members, roles, held, storeVars, schedVars,
                   envVars, now>>

\* await ctx.send(f"Created Muted role: ...")
AnnounceRole(c) ==
    /\ cmd[c].pc = "perms"
    /\ cmd[c].chans = <<>>
    /\ \E out \in Outcomes :
         cmd' = Upd(c, IF out = "ok"
                       THEN [cmd[c] EXCEPT !.resp = Append(@, "created_role"),
                                           !.pc = "addrole"]
                       ELSE RoleCaught(cmd[c], out))
    /\ UNCHANGED <<issued, guildVars, storeVars, schedVars, envVars, now>>

\* variant: a failed add_roles is swallowed and the handler goes on
AddRole_swallow(c) ==
    /\ cmd[c].pc = "addrole"
    /\ \E out \in Outcomes :
         /\ out = "ok" => cmd[c].target \in members
         /\ IF out = "ok"
            THEN /\ held' = [held EXCEPT ![cmd[c].target] = @ \cup {cmd[c].role}]
                 /\ cmd' = Upd(c, [cmd[c] EXCEPT !.trace = Append(@, "exec"),
                                                 !.t0 = now, !.pc = "dm"])
            ELSE /\ held' = held
                 /\ cmd' = Upd(c, [Fail(cmd[c], "exec_fail") EXCEPT !.pc = "dm"])
    /\ UNCHANGED <<issued, members, roles, overrides, storeVars, schedVars,
                   envVars, now>>

\* await member.add_roles(mute_role, ...); unmute_time = utcnow() + duration
AddRole(c) ==
    /\ cmd[c].pc = "addrole"
    /\ \E out \in Outcomes :
         /\ out = "ok" => cmd[c].target \in members
         /\ IF out = "ok"
            THEN /\ held' = [held EXCEPT ![cmd[c].target] = @ \cup {cmd[c].role}]
                 /\ cmd' = Upd(c, [cmd[c] EXCEPT !.trace = Append(@, "exec"),
                                                 !.t0 = now, !.pc = "dm"])
            ELSE /\ held' = held
                 /\ cmd' = Upd(c, Caught(Fail(cmd[c], "exec_fail"), out))
    /\ UNCHANGED <<issued, members, roles, overrides, storeVars, schedVars,
                   envVars, now>>

\* variant: the role is taken away as soon as the unmute is scheduled
schedule_unmute_eager(c) ==
    /\ cmd[c].pc = "schedule"
    /\ cmd' = Upd(c, [Fail(cmd[c], "schedule") EXCEPT !.pc = "done"])
    /\ held' = [held EXCEPT ![cmd[c].target] = @ \ {cmd[c].role}]
    /\ removals' = removals \cup {[user |-> cmd[c].target, at |-> now,
                                    until |-> muteUntil[cmd[c].target]]}
    /\ UNCHANGED <<issued, members, roles, overrides, storeVars, pending,
                   muteUntil, envVars, now>>

\* await self.schedule_unmute(member.id, mute_role.id, total_seconds()):
\* the coroutine runs inside the handler up to
\*     await asyncio.sleep(duration_seconds)
\* and the module never imports asyncio, so evaluating the name raises
\* NameError, which mute's "except Exception" answers with the generic
\* error message.  Nothing is left suspended and lines 268-292 never run.
schedule_unmute(c) ==
    /\ cmd[c].pc = "schedule"
    /\ cmd' = Upd(c, Caught(Fail(cmd[c], "schedule"), "error"))
    /\ UNCHANGED <<issued, guildVars, storeVars, schedVars, envVars, now>>

\* ----------------------------------------------------------- environment
Tick ==
    /\ now < MaxTime * TickSeconds
    /\ now' = now + TickSeconds
    /\ UNCHANGED <<cmd, issued, guildVars, storeVars, schedVars, envVars>>

Init ==
    /\ cmd = [c \in Cmds |-> IdleCmd]
    /\ issued = 0
    /\ members = Humans \cup {BotId}
    /\ top_role \in [Humans \cup {BotId} -> Ranks]
    /\ top_role[BotId] = 1
    /\ owner \in Humans
    /\ roles \in {<<>>, <<[id |-> 1, mute |-> TRUE, byBot |-> FALSE]>>}
    /\ held = [u \in Humans \cup {BotId} |-> {}]
    /\ modlog = <<>>
    /\ users = [u \in Humans |-> IF u = 1 THEN 0 ELSE NoRow]
    /\ pending = {}
    /\ removals = {}
    /\ muteUntil = [u \in Humans |-> 0]
    /\ overrides = {}
    /\ now = 0
    /\ duration_str = <<>>
    /\ parsed = NotParsed
    /\ server_config = [g \in Guilds |-> NoConfig]
    /\ cache_manager = "CacheManager"
    /\ inbox = [m \in Msgs |-> Waiting]
    /\ performance_stats = NoStats

Step(c) ==
    \/ SendDM(c)
    \/ LogAction(c)
    \/ GetUser(c)
    \/ UpdateWarnings(c)
    \/ Confirm(c)
    \/ Remove(c)
    \/ CreateRole(c)
    \/ SetPermissions(c)
    \/ AnnounceRole(c)
    \/ AddRole(c)
    \/ schedule_unmute(c)

Invoke(c) ==
    \E actor \in Humans, target \in Humans \cup {BotId} :
        \/ Warn(c, actor, target)
        \/ Kick(c, actor, target)
        \/ Ban(c, actor, target)
        \/ \E duration \in DurationInputs : Mute(c, actor, target, duration)

Next ==
    \/ \E c \in Cmds : Invoke(c)
    \/ \E c \in Cmds : Step(c)

Spec == Init /\ [][Next]_vars

\* the same program observed against the wall clock
NextTimed ==
    \/ Next
    \/ Tick

\* one guild configuration: user 1 owns the guild, user 2 outranks user 1,
\* no mute role exists yet
InitTimed ==
    /\ Init
    /\ owner = 1
    /\ top_role = [u \in Humans \cup {BotId} |-> IF u = 2 THEN 2 ELSE 1]
    /\ roles = <<>>

SpecTimed == InitTimed /\ [][NextTimed]_vars

\* the event loop resumes every handler that is ready, and time passes
FairSpec == SpecTimed /\ WF_vars(Tick) /\ \A c \in Cmds : WF_vars(Step(c))

\* ------------------------------------------------- interleaved warn commands
\* discord.py starts a task per incoming message, so a second warn can run
\* while the first is suspended at one of its awaits
CanInvokeWarn(c, actor, target) ==
    /\ issued < WarnCmds
    /\ Cardinality({b \in Cmds : Active(b)}) < WarnActive
    /\ ~Active(c)
    /\ \A b \in Cmds : b < c => Active(b)
    /\ actor \in members
    /\ target \in members

WarnInFlight(c, actor, target) ==
    /\ CanInvokeWarn(c, actor, target)
    /\ WarnStart(c, actor, target)

NextWarns ==
    \E c \in Cmds :
        \/ \E actor \in Humans, target \in Humans \cup {BotId} :
               WarnInFlight(c, actor, target)
        \/ SendDM(c)
        \/ LogAction(c)
        \/ GetUser(c)
        \/ UpdateWarnings(c)
        \/ Confirm(c)

SpecWarns == InitTimed /\ [][NextWarns]_vars

\* ------------------------------------------- mute commands around the cap
\* durations at, just above and below the 28-day cap:
\* "28d" and "672h" are 2419200 s, "28d1s" is 2419201 s, "40321m" is 2419260 s
CapInputs ==
    { <<"2", "8", "d">>, <<"6", "7", "2", "h">>,
      <<"2", "8", "d", "1", "s">>, <<"4", "0", "3", "2", "1", "m">>,
      <<"1", "h">> }

NextMute ==
    \E c \in Cmds :
        \/ \E actor \in Humans, target \in Humans \cup {BotId} :
             \E duration \in CapInputs : Mute(c, actor, target, duration)
        \/ CreateRole(c)
        \/ SetPermissions(c)
        \/ AnnounceRole(c)
        \/ AddRole(c)
        \/ SendDM(c)
        \/ LogAction(c)
        \/ Confirm(c)
        \/ schedule_unmute(c)

\* user 1 owns the guild, user 2 outranks user 1; with or without a mute role
InitMute ==
    /\ Init
    /\ owner = 1
    /\ top_role = [u \in Humans \cup {BotId} |-> IF u = 2 THEN 2 ELSE 1]

SpecMute == InitMute /\ [][NextMute]_vars

\* ------------------------------------- schedule_unmute behind its sleep
\* Lines 268-292 taken on their own: what a schedule_unmute coroutine does
\* from the statement after its sleep on.  In the handler above the sleep
\* never returns (see schedule_unmute), so this part starts with coroutines
\* that are already suspended in the sleep: user_id, role_id and
\* duration_seconds are their arguments, due is the time the sleep ends,
\* calls counts remove_roles calls, notified the expiry messages attempted,
\* errors the logger.error records, remove_result whether remove_roles
\* returned or raised, held_at_call whether the member held the role when
\* remove_roles was called.
Sleeping(i, u, d) ==
    [id |-> i, user |-> u, role |-> 1, duration_seconds |-> d, due |-> d,
     pc |-> "sleep", calls |-> 0, notified |-> 0, errors |-> 0,
     remove_result |-> "none", held_at_call |-> FALSE]

SleepSeconds == {TickSeconds, 2 * TickSeconds}

\* "except Exception" at line 291 treats every exception alike
Returned(out) == IF out = "ok" THEN "ok" ELSE "raised"

RoleExists(r) == \E i \in 1..Len(roles) : roles[i].id = r

\* the entry with its fields changed
Resumed(p, q) == (pending \ {p}) \cup {q}

\* variant: the role removal is called without looking up member and role
UnmuteWake_noLookup(i) ==
    /\ \E p \in pending :
         /\ p.id = i
         /\ p.pc = "sleep"
         /\ now >= p.due
         /\ pending' = Resumed(p, [p EXCEPT !.pc = "remove"])
    /\ UNCHANGED <<cmd, issued, guildVars, storeVars, removals, muteUntil,
                   envVars, now>>

\* the sleep is over: for guild in self.bot.guilds: member =
\* guild.get_member(user_id); if member: role = discord.utils.get(
\* guild.roles, id=role_id); if role: ... (one guild)
UnmuteWake(i) ==
    /\ \E p \in pending :
         /\ p.id = i
         /\ p.pc = "sleep"
         /\ now >= p.due
         /\ pending' = Resumed(p,
               [p EXCEPT !.pc = IF p.user \in members /\ RoleExists(p.role)
                                THEN "remove" ELSE "done"])
    /\ UNCHANGED <<cmd, issued, guildVars, storeVars, removals, muteUntil,
                   envVars, now>>

\* variant: a failed removal is tried again
UnmuteRemoveRoles_retry(i) ==
    /\ \E p \in pending : \E out \in Outcomes :
         /\ p.id = i
         /\ p.pc = "remove"
         /\ p.calls < 2
         /\ out = "ok" => (p.user \in members /\ RoleExists(p.role))
         /\ IF out = "ok"
            THEN /\ held' = [held EXCEPT ![p.user] = @ \ {p.role}]
                 /\ removals' = removals \cup
                       {[user |-> p.user, at |-> now,
                         until |-> muteUntil[p.user]]}
                 /\ pending' = Resumed(p, [p EXCEPT !.pc = "notify",
                                 !.calls = @ + 1,
                                 !.remove_result = Returned(out),
                                 !.held_at_call = p.role \in held[p.user]])
            ELSE /\ UNCHANGED <<held, removals>>
                 /\ pending' = Resumed(p, [p EXCEPT !.pc = "remove",
                                 !.calls = @ + 1, !.errors = @ + 1,
                                 !.remove_result = Returned(out),
                                 !.held_at_call = p.role \in held[p.user]])
    /\ UNCHANGED <<cmd, issued, members, roles, overrides, storeVars,
                   muteUntil, envVars, now>>

\* variant: removing a role the member does not hold counts as a failure
UnmuteRemoveRoles_strict(i) ==
    /\ \E p \in pending : \E out \in Outcomes :
         /\ p.id = i
         /\ p.pc = "remove"
         /\ out = "ok" => (p.user \in members /\ RoleExists(p.role))
         /\ IF out = "ok" /\ p.role \in held[p.user]
            THEN /\ held' = [held EXCEPT ![p.user] = @ \ {p.role}]
                 /\ removals' = removals \cup
                       {[user |-> p.user, at |-> now,
                         until |-> muteUntil[p.user]]}
                 /\ pending' = Resumed(p, [p EXCEPT !.pc = "notify",
                                 !.calls = @ + 1,
                                 !.remove_result = Returned(out),
                                 !.held_at_call = p.role \in held[p.user]])
            ELSE /\ UNCHANGED <<held, removals>>
                 /\ pending' = Resumed(p, [p EXCEPT !.pc = "done",
                                 !.calls = @ + 1, !.errors = @ + 1,
                                 !.remove_result = Returned(out),
                                 !.held_at_call = p.role \in held[p.user]])
    /\ UNCHANGED <<cmd, issued, members, roles, overrides, storeVars,
                   muteUntil, envVars, now>>

\* await member.remove_roles(role, reason="Mute duration expired"); when it
\* raises, "except Exception" logs the error and the guild loop ends.
\* Taking away a role the member does not hold is accepted by the platform.
UnmuteRemoveRoles(i) ==
    /\ \E p \in pending : \E out \in Outcomes :
         /\ p.id = i
         /\ p.pc = "remove"
         /\ out = "ok" => (p.user \in members /\ RoleExists(p.role))
         /\ IF out = "ok"
            THEN /\ held' = [held EXCEPT ![p.user] = @ \ {p.role}]
                 /\ removals' = removals \cup
                       {[user |-> p.user, at |-> now,
                         until |-> muteUntil[p.user]]}
                 /\ pending' = Resumed(p, [p EXCEPT !.pc = "notify",
                                 !.calls = @ + 1,
                                 !.remove_result = Returned(out),
                                 !.held_at_call = p.role \in held[p.user]])
            ELSE /\ UNCHANGED <<held, removals>>
                 /\ pending' = Resumed(p, [p EXCEPT !.pc = "done",
                                 !.calls = @ + 1, !.errors = @ + 1,
                                 !.remove_result = Returned(out),
                                 !.held_at_call = p.role \in held[p.user]])
    /\ UNCHANGED <<cmd, issued, members, roles, overrides, storeVars,
                   muteUntil, envVars, now>>

\* try: await member.send(embed=unmute_embed) except discord.Forbidden:
\* pass; logger.info(...); break -- any other exception reaches the outer
\* "except Exception", which logs the error
UnmuteNotify(i) ==
    /\ \E p \in pending : \E out \in Outcomes :
         /\ p.id = i
         /\ p.pc = "notify"
         /\ pending' = Resumed(p, [p EXCEPT !.pc = "done",
                          !.notified = @ + 1,
                          !.errors = IF out = "error" THEN @ + 1 ELSE @])
    /\ UNCHANGED <<cmd, issued, guildVars, storeVars, removals, muteUntil,
                   envVars, now>>

\* what happens to the guild while the coroutines sleep: the member leaves,
\* a moderator takes the mute role away by hand, the role is deleted
MemberLeaves(u) ==
    /\ u \in members
    /\ members' = members \ {u}
    /\ held' = [held EXCEPT ![u] = {}]
    /\ UNCHANGED <<cmd, issued, roles, overrides, storeVars, schedVars,
                   envVars, now>>

ManualUnmute(u) ==
    /\ u \in members
    /\ held[u] # {}
    /\ held' = [held EXCEPT ![u] = {}]
    /\ UNCHANGED <<cmd, issued, members, roles, overrides, storeVars,
                   schedVars, envVars, now>>

RoleDeleted ==
    /\ roles # <<>>
    /\ roles' = <<>>
    /\ held' = [u \in Humans \cup {BotId} |-> {}]
    /\ UNCHANGED <<cmd, issued, members, overrides, storeVars, schedVars,
                   envVars, now>>

NextUnmute ==
    \/ \E i \in 1..MaxPending :
          \/ UnmuteWake(i)
          \/ UnmuteRemoveRoles(i)
          \/ UnmuteNotify(i)
    \/ \E u \in Humans :
          \/ MemberLeaves(u)
          \/ ManualUnmute(u)
    \/ RoleDeleted
    \/ Tick

\* one to MaxPending mutes were made with the existing mute role at time 0
\* and their coroutines sleep (numbered in the order of member and delay)
InitUnmute ==
    /\ cmd = [c \in Cmds |-> IdleCmd]
    /\ issued = 0
    /\ members = Humans \cup {BotId}
    /\ top_role = [u \in Humans \cup {BotId} |-> IF u = 2 THEN 2 ELSE 1]
    /\ owner = 1
    /\ roles = <<[id |-> 1, mute |-> TRUE, byBot |-> FALSE]>>
    /\ modlog = <<>>
    /\ users = [u \in Humans |-> IF u = 1 THEN 0 ELSE NoRow]
    /\ removals = {}
    /\ overrides = {}
    /\ now = 0
    /\ duration_str = <<>>
    /\ parsed = NotParsed
    /\ server_config = [g \in Guilds |-> NoConfig]
    /\ cache_manager = "CacheManager"
    /\ inbox = [m \in Msgs |-> Waiting]
    /\ performance_stats = NoStats
    /\ \E n \in 1..MaxPending :
         \E us \in [1..n -> Humans] : \E ds \in [1..n -> SleepSeconds] :
            /\ \A i \in 1..(n - 1) :
                  \/ us[i] < us[i + 1]
                  \/ us[i] = us[i + 1] /\ ds[i] <= ds[i + 1]
            /\ pending = {Sleeping(i, us[i], ds[i]) : i \in 1..n}
            /\ held = [u \in Humans \cup {BotId} |->
                         IF \E i \in 1..n : us[i] = u THEN {1} ELSE {}]
            /\ muteUntil = [u \in Humans |->
                         IF \E i \in 1..n : us[i] = u /\ ds[i] = 2 * TickSeconds
                         THEN 2 * TickSeconds
                         ELSE IF \E i \in 1..n : us[i] = u THEN TickSeconds
                         ELSE 0]

SpecUnmute == InitUnmute /\ [][NextUnmute]_vars

\* ------------------------------------------------ parse_duration on its own
\* characters the argument is typed from
Alphabet == {"0", "1", "d", "h", "m", "s", "H", " ", "x"}

TypeChar(ch) ==
    /\ ~parsed.called
    /\ Len(duration_str) < MaxLen
    /\ duration_str' = Append(duration_str, ch)
    /\ UNCHANGED <<cmd, issued, guildVars, storeVars, schedVars, top_role,
                   owner, parsed, server_config, gatewayVars, now>>

\* parse_duration(duration_str): the regular expression has only optional
\* groups and re.match anchors at the start only, so it matches every
\* string ("if not match" never holds) and int() accepts every \d+ ("except
\* ValueError" never runs): the call returns a timedelta or raises the
\* OverflowError of timedelta()
CallParse ==
    /\ ~parsed.called
    /\ parsed' = LET r == parse_duration(duration_str) IN
                 [called |-> TRUE,
                  returned |-> IF r.ok THEN "timedelta" ELSE "OverflowError",
                  secs |-> r.secs]
    /\ UNCHANGED <<cmd, issued, guildVars, storeVars, schedVars, top_role,
                   owner, duration_str, server_config, gatewayVars, now>>

NextParse ==
    \/ \E ch \in Alphabet : TypeChar(ch)
    \/ CallParse

SpecParse == InitTimed /\ [][NextParse]_vars

\* --------------------------------------- mutes that do not overlap in time
\* guild.roles when the bot starts: no mute role, one, or a role without
\* "mute" in its name followed by two roles with it
RolesAtStart ==
    { <<>>,
      <<[id |-> 1, mute |-> TRUE, byBot |-> FALSE]>>,
      <<[id |-> 1, mute |-> FALSE, byBot |-> FALSE],
        [id |-> 2, mute |-> TRUE, byBot |-> FALSE],
        [id |-> 3, mute |-> TRUE, byBot |-> FALSE]>> }

\* a mute issued when no handler is in flight
MuteAlone(c, actor, target, duration) ==
    /\ \A b \in Cmds : ~Active(b)
    /\ Mute(c, actor, target, duration)

NextMuteSeq ==
    \E c \in Cmds :
        \/ \E actor \in Humans, target \in Humans :
              MuteAlone(c, actor, target, <<"1", "h">>)
        \/ CreateRole(c)
        \/ SetPermissions(c)
        \/ AnnounceRole(c)
        \/ AddRole(c)
        \/ SendDM(c)
        \/ LogAction(c)
        \/ Confirm(c)
        \/ schedule_unmute(c)

InitMuteSeq ==
    /\ cmd = [c \in Cmds |-> IdleCmd]
    /\ issued = 0
    /\ members = Humans \cup {BotId}
    /\ top_role = [u \in Humans \cup {BotId} |-> IF u = 2 THEN 2 ELSE 1]
    /\ owner = 1
    /\ roles \in RolesAtStart
    /\ held = [u \in Humans \cup {BotId} |-> {}]
    /\ modlog = <<>>
    /\ users = [u \in Humans |-> IF u = 1 THEN 0 ELSE NoRow]
    /\ pending = {}
    /\ removals = {}
    /\ muteUntil = [u \in Humans |-> 0]
    /\ overrides = {}
    /\ now = 0
    /\ duration_str = <<>>
    /\ parsed = NotParsed
    /\ server_config = [g \in Guilds |-> NoConfig]
    /\ cache_manager = "CacheManager"
    /\ inbox = [m \in Msgs |-> Waiting]
    /\ performance_stats = NoStats

SpecMuteSeq == InitMuteSeq /\ [][NextMuteSeq]_vars

\* ------------------------------------------------- interleaved mute commands
\* as for warn: each command runs in a task of its own
CanInvokeMute(c, actor, target) ==
    /\ issued < MuteCmds
    /\ Cardinality({b \in Cmds : Active(b)}) < MuteActive
    /\ ~Active(c)
    /\ \A b \in Cmds : b < c => Active(b)
    /\ actor \in members
    /\ target \in members

MuteInFlight(c, actor, target, duration) ==
    /\ CanInvokeMute(c, actor, target)
    /\ MuteStart(c, actor, target, duration)

NextMuteRace ==
    \E c \in Cmds :
        \/ \E actor \in Humans, target \in Humans :
              MuteInFlight(c, actor, target, <<"1", "h">>)
        \/ CreateRole(c)
        \/ SetPermissions(c)
        \/ AnnounceRole(c)
        \/ AddRole(c)
        \/ SendDM(c)
        \/ LogAction(c)
        \/ Confirm(c)
        \/ schedule_unmute(c)

SpecMuteRace == InitTimed /\ [][NextMuteRace]_vars

\* ------------------------------------------------------ server configuration
\* Three of the seven configuration columns are kept: the one with a default
\* other than NULL, the one set_log_channel writes and one more id column;
\* of the two timestamps, the one an update writes.
valid_fields == {"prefix", "mute_role_id", "log_channel_id"}
UnknownKey == "colour"                \* a keyword that names no column
Keys == valid_fields \cup {UnknownKey}
NullId == 0                           \* SQL NULL in a BIGINT column
ColumnDefault == [prefix |-> "!", mute_role_id |-> NullId,
                  log_channel_id |-> NullId]
Prefixes == {"!", "?"}
ConfigIds == {1}

\* keyword arguments of a call: the keys in S with their values in full
FullKwargs == [prefix : Prefixes, mute_role_id : ConfigIds,
               log_channel_id : ConfigIds, colour : {1}]
Restrict(full, S) == [k \in S |-> full[k]]
Kwargs == {Restrict(full, S) : full \in FullKwargs, S \in SUBSET Keys}

Col(kwargs, field, otherwise) ==
    IF field \in DOMAIN kwargs THEN kwargs[field] ELSE otherwise

\* INSERT INTO server_config (guild_id, <fields>) VALUES (...): the columns
\* not named take their defaults
InsertedRow(kwargs) ==
    [exists |-> TRUE,
     prefix |-> Col(kwargs, "prefix", ColumnDefault.prefix),
     mute_role_id |-> Col(kwargs, "mute_role_id", ColumnDefault.mute_role_id),
     log_channel_id |->
         Col(kwargs, "log_channel_id", ColumnDefault.log_channel_id),
     updated_at |-> now,
     last_keys |-> DOMAIN kwargs]

\* ON CONFLICT (guild_id) DO UPDATE SET <field = value>, updated_at = NOW()
UpdatedRow(row, kwargs) ==
    [row EXCEPT !.prefix = Col(kwargs, "prefix", @),
                !.mute_role_id = Col(kwargs, "mute_role_id", @),
                !.log_channel_id = Col(kwargs, "log_channel_id", @),
                !.updated_at = now,
                !.last_keys = DOMAIN kwargs]

\* variant: on conflict the row is replaced by the inserted one
update_server_config_replace(guild_id, kwargs) ==
    LET set_parts == DOMAIN kwargs \cap valid_fields IN
    /\ server_config' =
          IF set_parts = {} THEN server_config
          ELSE IF DOMAIN kwargs # set_parts THEN server_config
          ELSE [server_config EXCEPT ![guild_id] = InsertedRow(kwargs)]
    /\ UNCHANGED <<cmd, issued, guildVars, storeVars, schedVars, top_role,
                   owner, duration_str, parsed, gatewayVars, now>>

\* DatabaseManager.update_server_config(guild_id, **kwargs)
update_server_config(guild_id, kwargs) ==
    LET set_parts == DOMAIN kwargs \cap valid_fields
        row == server_config[guild_id]
    IN
    /\ server_config' =
          IF set_parts = {}
          THEN server_config                 \* return: nothing to update
          ELSE IF DOMAIN kwargs # set_parts
          \* the column list holds every keyword, the values only those of
          \* the recognised ones: the statement is rejected, execute raises
          THEN server_config
          ELSE IF ~row.exists
          THEN [server_config EXCEPT ![guild_id] = InsertedRow(kwargs)]
          ELSE [server_config EXCEPT ![guild_id] = UpdatedRow(row, kwargs)]
    /\ UNCHANGED <<cmd, issued, guildVars, storeVars, schedVars, top_role,
                   owner, duration_str, parsed, gatewayVars, now>>

\* MessageLogging.set_log_channel: the channel's id is the only keyword
set_log_channel(guild_id, channel) ==
    /\ channel \in ConfigIds
    /\ update_server_config(guild_id, [log_channel_id |-> channel])

NextConfig ==
    \/ \E g \in Guilds, kwargs \in Kwargs : update_server_config(g, kwargs)
    \/ \E g \in Guilds, channel \in ConfigIds : set_log_channel(g, channel)
    \/ Tick

SpecConfig == InitTimed /\ [][NextConfig]_vars

\* ----------------------------------------------- warn commands one by one
\* a warn invoked when no other handler is in flight
WarnAlone(c, actor, target) ==
    /\ \A b \in Cmds : ~Active(b)
    /\ WarnInFlight(c, actor, target)

NextWarnSeq ==
    \E c \in Cmds :
        \/ \E actor \in Humans, target \in Humans \cup {BotId} :
               WarnAlone(c, actor, target)
        \/ SendDM(c)
        \/ LogAction(c)
        \/ GetUser(c)
        \/ UpdateWarnings(c)
        \/ Confirm(c)

SpecWarnSeq == InitTimed /\ [][NextWarnSeq]_vars

\* ------------------------------------------- mute with oversized durations
\* a day count above timedelta's limit, one that passes it through the
\* hours carried into it, and a duration that is accepted
OverflowInputs ==
    { <<"1", "0", "0", "0", "0", "0", "0", "0", "0", "0", "d">>,
      <<"9", "9", "9", "9", "9", "9", "9", "9", "9", "d", "2", "4", "h">>,
      <<"1", "h">> }

NextMuteOverflow ==
    \E c \in Cmds :
        \/ \E actor \in Humans, target \in Humans \cup {BotId} :
             \E duration \in OverflowInputs :
                Mute(c, actor, target, duration)
        \/ CreateRole(c)
        \/ SetPermissions(c)
        \/ AnnounceRole(c)
        \/ AddRole(c)
        \/ SendDM(c)
        \/ LogAction(c)
        \/ Confirm(c)
        \/ schedule_unmute(c)

SpecMuteOverflow == InitMute /\ [][NextMuteOverflow]_vars

\* ------------------------------------------------- mute with zero durations
\* zero in one unit and in two, the default duration, the cap and beyond it
ZeroInputs ==
    { <<"0", "s">>, <<"0", "m">>, <<"0", "h", "0", "s">>, <<"1", "h">>,
      <<"2", "8", "d">>, <<"2", "9", "d">> }

NextMuteZero ==
    \E c \in Cmds :
        \/ \E actor \in Humans, target \in Humans \cup {BotId} :
             \E duration \in ZeroInputs : Mute(c, actor, target, duration)
        \/ CreateRole(c)
        \/ SetPermissions(c)
        \/ AnnounceRole(c)
        \/ AddRole(c)
        \/ SendDM(c)
        \/ LogAction(c)
        \/ Confirm(c)
        \/ schedule_unmute(c)

SpecMuteZero == InitMute /\ [][NextMuteZero]_vars

\* --------------------------------------------------------- message gateway
Handled(author_bot, prefixed, called, dispatched, raised) ==
    [pc |-> "handled", author_bot |-> author_bot, prefixed |-> prefixed,
     process_commands |-> called, dispatched |-> dispatched,
     raised |-> raised]

\* TheCascadeBot.process_commands(message): what it raises, and whether it
\* reaches commands.Bot.process_commands
process_commands(prefixed) ==
    IF ~command_prefix_callable
    THEN [raised |-> "TypeError", dispatched |-> FALSE]   \* line 106
    ELSE IF ~prefixed
    THEN [raised |-> "nothing", dispatched |-> FALSE]     \* line 107
    ELSE [raised |-> "nothing", dispatched |-> TRUE]      \* line 113

\* TheCascadeBot.on_message(message). No await of it suspends before it
\* returns or raises, so one message is one step.
on_message(m, author_bot, prefixed) ==
    /\ inbox[m].pc = "waiting"
    /\ \A k \in Msgs : k < m => inbox[k].pc = "handled"
    /\ IF author_bot
       THEN /\ inbox' = [inbox EXCEPT ![m] =
                  Handled(TRUE, prefixed, FALSE, FALSE, "nothing")]
            /\ UNCHANGED performance_stats
       ELSE IF cache_manager = "CacheManager"
       \* CacheManager defines no update_user_last_seen: the attribute
       \* lookup raises and nothing catches it
       THEN /\ inbox' = [inbox EXCEPT ![m] =
                  Handled(FALSE, prefixed, FALSE, FALSE, "AttributeError")]
            /\ performance_stats' =
                  [performance_stats EXCEPT !.messages_processed = @ + 1]
       ELSE LET r == process_commands(prefixed) IN
            /\ inbox' = [inbox EXCEPT ![m] =
                  Handled(FALSE, prefixed, TRUE, r.dispatched, r.raised)]
            /\ performance_stats' =
                  [messages_processed |->
                      performance_stats.messages_processed + 1,
                   commands_executed |->
                      performance_stats.commands_executed
                          + (IF r.dispatched THEN 1 ELSE 0)]
    /\ UNCHANGED <<cmd, issued, guildVars, storeVars, schedVars, top_role,
                   owner, duration_str, parsed, server_config,
                   cache_manager, now>>

NextDispatch ==
    \E m \in Msgs, author_bot \in BOOLEAN, prefixed \in BOOLEAN :
        on_message(m, author_bot, prefixed)

\* bot.py sets bot.cache_manager to a CacheManager; on_message also
\* provides for a bot that has none
InitDispatch ==
    /\ cmd = [c \in Cmds |-> IdleCmd]
    /\ issued = 0
    /\ members = Humans \cup {BotId}
    /\ top_role = [u \in Humans \cup {BotId} |-> IF u = 2 THEN 2 ELSE 1]
    /\ owner = 1
    /\ roles = <<>>
    /\ held = [u \in Humans \cup {BotId} |-> {}]
    /\ modlog = <<>>
    /\ users = [u \in Humans |-> IF u = 1 THEN 0 ELSE NoRow]
    /\ pending = {}
    /\ removals = {}
    /\ muteUntil = [u \in Humans |-> 0]
    /\ overrides = {}
    /\ now = 0
    /\ duration_str = <<>>
    /\ parsed = NotParsed
    /\ server_config = [g \in Guilds |-> NoConfig]
    /\ cache_manager \in {"None", "CacheManager"}
    /\ inbox = [m \in Msgs |-> Waiting]
    /\ performance_stats = NoStats

SpecDispatch == InitDispatch /\ [][NextDispatch]_vars

TypeOK ==
    /\ \A c \in Cmds : cmd[c].pc \in {"idle", "dm", "exec", "log", "getuser",
            "update", "confirm", "createrole", "perms", "addrole",
            "schedule", "done"}
    /\ members \subseteq Humans \cup {BotId}
    /\ now \in 0..(MaxTime * TickSeconds)
    /\ issued \in 0..(NumCmds + WarnCmds)
    /\ \A c \in Cmds : cmd[c].kind \in Kinds \cup {"none"}

\* =================================================================== claims
\* first position of an event in a trace, 0 when it is absent
Pos(seq, x) ==
    IF Has(seq, x) THEN CHOOSE i \in 1..Len(seq) :
                           seq[i] = x /\ \A j \in 1..(i - 1) : seq[j] # x
    ELSE 0

Before(seq, x, y) == 0 < Pos(seq, x) /\ Pos(seq, x) < Pos(seq, y)

HierarchyBlocks(actor, target) ==
    top_role[actor] <= top_role[target] /\ actor # owner

\* role added, audit record written, confirmation sent
MuteCompleted(c) ==
    /\ cmd[c].kind = "mute"
    /\ Has(cmd[c].trace, "exec")
    /\ Has(cmd[c].trace, "log")
    /\ Has(cmd[c].trace, "confirm")

RemovalAttempted(u) == \E r \in removals : r.user = u

UnmutePending(u, role) == \E p \in pending : p.user = u /\ p.role = role

\* C1: after a mute command has completed successfully, a removal of the
\* mute role from the muted member is eventually attempted, as long as the
\* member is still in the guild (the mute role is never deleted here).
\* Stated for the mutes that expire while the clock still runs, so that the
\* expiry time is reached in every fair behaviour.
C1_UnmuteEventuallyAttempted ==
    \A c \in Cmds : \A u \in Humans :
        (/\ MuteCompleted(c)
         /\ cmd[c].target = u
         /\ cmd[c].t0 + cmd[c].secs <= MaxTime * TickSeconds)
            ~> (RemovalAttempted(u) \/ u \notin members)

\* C2: registering the unmute does not block the mute command: when the
\* handler has returned after its confirmation, the unmute exists as a task
\* of its own, still pending or already run.
C2_UnmuteIsSeparateTask ==
    \A c \in Cmds :
        (MuteCompleted(c) /\ cmd[c].pc = "done")
            => (UnmutePending(cmd[c].target, cmd[c].role)
                \/ RemovalAttempted(cmd[c].target))

RejectionOrder(rec) ==
    /\ Len(rec.resp) = 1
    /\ rec.target = rec.actor => rec.resp[1] = "reject_self"
    /\ (rec.target # rec.actor /\ rec.target = BotId)
          => rec.resp[1] = "reject_bot"
    /\ rec.resp[1] = "reject_hier"
          => rec.target \notin {rec.actor, BotId}
    /\ rec.resp[1] \in {"invalid_duration", "too_long"}
          => /\ rec.kind = "mute"
             /\ rec.target \notin {rec.actor, BotId}
             /\ ~HierarchyBlocks(rec.actor, rec.target)

C4_RejectionHasNoSideEffect ==
    [][\A c \in Cmds :
          (cmd'[c] # cmd[c] /\ Has(cmd'[c].trace, "reject"))
             => /\ UNCHANGED <<members, roles, held, overrides, modlog, users,
                               pending, removals>>
                /\ cmd'[c].trace = <<"reject">>
                /\ cmd'[c].infraction = NoId
                /\ RejectionOrder(cmd'[c])]_vars

C4_Witness ==
    \E c \in Cmds :
        /\ cmd[c].kind = "mute"
        /\ cmd[c].resp = <<"too_long">>
        /\ Len(modlog) > 0

\* C5: when the target is neither the actor nor the bot, the hierarchy check
\* rejects the command iff the actor's rank is at most the target's and the
\* actor is not the owner; otherwise the command passes the authority checks
\* (for mute, on to the validation of the duration).
C5_HierarchyRule ==
    \A c \in Cmds :
        (cmd[c].pc # "idle" /\ cmd[c].target \notin {cmd[c].actor, BotId})
          => /\ cmd[c].resp = <<"reject_hier">>
                  <=> HierarchyBlocks(cmd[c].actor, cmd[c].target)
             /\ (~HierarchyBlocks(cmd[c].actor, cmd[c].target)
                   /\ cmd[c].kind # "mute")
                  => Has(cmd[c].trace, "auth_ok")
             /\ HierarchyBlocks(cmd[c].actor, cmd[c].target)
                  => cmd[c].trace = <<"reject">>

C5_Witness ==
    \E c \in Cmds :
        /\ Has(cmd[c].trace, "auth_ok")
        /\ cmd[c].actor = owner
        /\ top_role[cmd[c].actor] < top_role[cmd[c].target]

\* C6: a command whose target is the actor or the bot is rejected at once,
\* whatever the ranks and whether or not the actor owns the guild.
C6_SelfAndBotAlwaysRejected ==
    \A c \in Cmds :
        (cmd[c].pc # "idle" /\ cmd[c].target \in {cmd[c].actor, BotId})
          => /\ cmd[c].pc = "done"
             /\ cmd[c].trace = <<"reject">>
             /\ cmd[c].resp = <<IF cmd[c].target = cmd[c].actor
                                THEN "reject_self" ELSE "reject_bot">>

C6_Witness ==
    \E c \in Cmds :
        /\ cmd[c].actor = owner
        /\ cmd[c].target = BotId
        /\ top_role[cmd[c].actor] > top_role[BotId]
        /\ cmd[c].resp = <<"reject_bot">>

\* C7: when kick, ban or role-add raises, the command ends there: no audit
\* record, one error response, and no counter update, confirmation or
\* unmute scheduling.
C7_FailedExecutionStops ==
    \A c \in Cmds :
        Has(cmd[c].trace, "exec_fail")
          => /\ cmd[c].pc = "done"
             /\ cmd[c].infraction = NoId
             /\ ~Has(cmd[c].trace, "log")
             /\ ~Has(cmd[c].trace, "write")
             /\ ~Has(cmd[c].trace, "confirm")
             /\ ~Has(cmd[c].trace, "schedule")
             /\ Count(cmd[c].resp, "forbidden") + Count(cmd[c].resp, "error") = 1
             /\ cmd[c].resp[Len(cmd[c].resp)] \in {"forbidden", "error"}

C7_Witness ==
    \E c \in Cmds :
        /\ cmd[c].kind = "mute"
        /\ Has(cmd[c].trace, "exec_fail")
        /\ cmd[c].resp[Len(cmd[c].resp)] = "forbidden"

\* C8 as stated: the direct notification is never attempted before the
\* platform action of the command was executed and its audit record appended.
C8_NotifyAfterExecuteAndLog ==
    \A c \in Cmds :
        Has(cmd[c].trace, "dm")
          => /\ cmd[c].kind # "warn" => Before(cmd[c].trace, "exec", "dm")
             /\ Before(cmd[c].trace, "log", "dm")

\* C8 amended: the notification is attempted only after the authority checks
\* passed; the audit record is appended only after the notification was
\* attempted and the platform action executed; kick and ban notify before
\* they remove the member, mute notifies after it added the role.
C8_StepOrder ==
    \A c \in Cmds :
        LET t == cmd[c].trace IN
        /\ Has(t, "dm") => Before(t, "auth_ok", "dm")
        /\ Has(t, "log") => Before(t, "dm", "log")
        /\ (Has(t, "log") /\ cmd[c].kind # "warn") => Before(t, "exec", "log")
        /\ (cmd[c].kind \in {"kick", "ban"} /\ Has(t, "exec"))
              => Before(t, "dm", "exec")
        /\ (cmd[c].kind \in {"kick", "ban"} /\ Has(t, "exec_fail"))
              => Before(t, "dm", "exec_fail")
        /\ (cmd[c].kind = "mute" /\ Has(t, "dm")) => Before(t, "exec", "dm")

C8_Witness ==
    \E c \in Cmds :
        /\ cmd[c].kind = "kick"
        /\ cmd[c].trace = <<"auth_ok", "dm", "exec", "log", "confirm">>

\* C9: a successful warn, mute, kick or ban has appended exactly one audit
\* record, of its own action type, and a successful warn has also made
\* exactly one warning-counter write; a rejected or failed command has
\* appended none.
C9_OneAuditRecordAndOneIncrement ==
    \A c \in Cmds :
        /\ Has(cmd[c].trace, "confirm")
             => /\ Count(cmd[c].trace, "log") = 1
                /\ cmd[c].infraction \in 1..Len(modlog)
                /\ modlog[cmd[c].infraction].action_type = cmd[c].kind
                /\ cmd[c].kind = "warn" => Count(cmd[c].trace, "write") = 1
        /\ (Has(cmd[c].trace, "reject") \/ Has(cmd[c].trace, "exec_fail"))
             => Count(cmd[c].trace, "log") = 0

\* C10: a warn whose counter read or write failed after the audit record was
\* appended still ends as a success: confirmation sent, no error response,
\* audit record kept.
C10_CounterUpdateIsBestEffort ==
    \A c \in Cmds :
        (/\ cmd[c].kind = "warn"
         /\ cmd[c].pc = "done"
         /\ Has(cmd[c].trace, "log")
         /\ Has(cmd[c].trace, "read_fail") \/ Has(cmd[c].trace, "write_fail"))
          => /\ Has(cmd[c].resp, "confirm")
             /\ ~Has(cmd[c].resp, "error")
             /\ cmd[c].infraction \in 1..Len(modlog)

\* C11: the step that attempts the direct notification never ends the
\* command: whatever the outcome of the delivery, the handler goes on to its
\* next step and no response is sent by that step.
C11_DeliveryFailureSwallowed ==
    [][\A c \in Cmds :
          (cmd[c].pc = "dm" /\ cmd'[c] # cmd[c])
             => /\ cmd'[c].pc \in {"exec", "log"}
                /\ cmd'[c].resp = cmd[c].resp]_vars

\* C12: the step in which the audit write fails, the platform action having
\* been executed, ends the handler with exactly one generic error response
\* and no confirmation; the guild is left as the platform action made it
\* (nothing is rolled back), no audit record is written, and the handler
\* returns instead of raising.
C12_AuditFailureAfterAction ==
    [][\A c \in Cmds :
          (cmd[c].pc = "log" /\ cmd'[c] # cmd[c]
              /\ Has(cmd'[c].trace, "log_fail"))
             => /\ cmd[c].kind # "warn" => Has(cmd[c].trace, "exec")
                /\ cmd'[c].pc = "done"
                /\ cmd'[c].resp = Append(cmd[c].resp, "error")
                /\ Count(cmd'[c].resp, "error") = 1
                /\ ~Has(cmd'[c].resp, "confirm")
                /\ cmd'[c].trace[Len(cmd'[c].trace)] = "caught_error"
                /\ cmd'[c].infraction = NoId
                /\ UNCHANGED <<members, roles, held, overrides, modlog,
                               users, pending>>]_vars

C12_Witness ==
    \E c \in Cmds :
        /\ cmd[c].kind = "ban"
        /\ cmd[c].trace = <<"auth_ok", "dm", "exec", "log_fail", "caught_error">>
        /\ cmd[c].resp = <<"error">>
        /\ cmd[c].target \notin members

\* number of warn audit records of a user
WarnRows(u) ==
    Cardinality({i \in 1..Len(modlog) :
        modlog[i].action_type = "warn" /\ modlog[i].user_id = u})

\* C13: a successful warn of a user that had no record leaves a record with
\* the increment applied: the counter is at least 1 and, every warn of that
\* user counted, at most the number of warns made (k after k successful
\* warns in a row).
C13_FirstWarnCreatesRecord ==
    \A c \in Cmds :
        (/\ cmd[c].kind = "warn"
         /\ Has(cmd[c].trace, "confirm")
         /\ cmd[c].read = NoRow)
          => /\ users[cmd[c].target] # NoRow
             /\ users[cmd[c].target] \in 1..WarnRows(cmd[c].target)

\* C14: the increment is an atomic read-modify-write: every counter write of
\* a warn leaves the counter exactly one above the value it had just before
\* that write, so that n warns of one user that all succeed, interleaved or
\* not, end n higher.
C14_IncrementAddsOne ==
    [][\A c \in Cmds :
          (cmd[c].pc = "update" /\ cmd'[c] # cmd[c]
              /\ Has(cmd'[c].trace, "write"))
             => users'[cmd[c].target] = users[cmd[c].target] + 1]_vars

\* C15: the warning counter of a user never goes down, interleaved warns of
\* the same user included.
C15_WarningsNeverDecrease ==
    [][\A u \in Humans :
          users[u] # NoRow => users'[u] >= users[u]]_vars

\* C16: a mute that succeeded with parsed duration d has, when its handler
\* has returned, written exactly one audit record of type mute with
\* duration d, left exactly one scheduled unmute with delay d for the muted
\* member and the resolved role, and made exactly one attempt to notify the
\* member.
C16_MuteEffects ==
    \A c \in Cmds :
        (MuteCompleted(c) /\ cmd[c].pc = "done")
          => /\ Count(cmd[c].trace, "log") = 1
             /\ cmd[c].infraction \in 1..Len(modlog)
             /\ modlog[cmd[c].infraction].action_type = "mute"
             /\ modlog[cmd[c].infraction].user_id = cmd[c].target
             /\ modlog[cmd[c].infraction].duration
                   = parse_duration(cmd[c].dstr).secs
             /\ Count(cmd[c].trace, "dm") = 1
             /\ Cardinality({p \in pending :
                    /\ p.user = cmd[c].target
                    /\ p.role = cmd[c].role
                    /\ p.duration_seconds = cmd[c].secs}) = 1

\* C17: the first step of a mute that passes the authority checks accepts a
\* duration of exactly 2,419,200 seconds (the handler goes on with that
\* duration) and rejects 2,419,201 seconds and every longer one; nothing
\* shorter is rejected as too long; the rejecting step adds no role, creates
\* none and writes no audit record.
C17_CapIsInclusive ==
    [][\A c \in Cmds :
          (/\ cmd'[c] # cmd[c]
           /\ cmd[c].pc \in {"idle", "done"}
           /\ cmd'[c].kind = "mute"
           /\ AuthorityCheck(cmd'[c].actor, cmd'[c].target) = "ok"
           /\ parse_duration(cmd'[c].dstr).ok)
             => LET d == parse_duration(cmd'[c].dstr).secs IN
                /\ d = 2419200
                     => /\ cmd'[c].pc \in {"createrole", "addrole"}
                        /\ cmd'[c].secs = 2419200
                        /\ cmd'[c].resp = <<>>
                /\ d >= 2419201
                     => /\ cmd'[c].pc = "done"
                        /\ cmd'[c].resp = <<"too_long">>
                        /\ cmd'[c].trace = <<"reject">>
                        /\ UNCHANGED <<held, roles, overrides, modlog>>
                /\ Has(cmd'[c].resp, "too_long") => d >= 2419201]_vars

\* a mute of exactly the cap went through to its audit record, and a later
\* mute of one second more was rejected
C17_Witness ==
    \E c \in Cmds :
        /\ cmd[c].resp = <<"too_long">>
        /\ parse_duration(cmd[c].dstr).secs = 2419201
        /\ \E i \in 1..Len(modlog) :
              /\ modlog[i].action_type = "mute"
              /\ modlog[i].duration = 2419200
              /\ modlog[i].user_id \in Humans
              /\ held[modlog[i].user_id] # {}

\* C18: when a scheduled unmute fires and the member is no longer in the
\* guild, or the role no longer exists, the fire ends at once: no
\* role-removal call, no notification, no error recorded, guild untouched;
\* and a fire that has ended does nothing more.
C18_AbsentMemberOrRoleIsNoOp ==
    [][/\ \A p \in pending : \A q \in pending' :
            (/\ q.id = p.id
             /\ q # p
             /\ p.pc = "sleep"
             /\ p.user \notin members \/ ~RoleExists(p.role))
               => /\ q = [p EXCEPT !.pc = "done"]
                  /\ q.calls = 0
                  /\ q.notified = 0
                  /\ q.errors = 0
                  /\ UNCHANGED <<members, roles, held, removals, cmd, modlog>>
       /\ \A p \in pending : p.pc = "done" => p \in pending']_vars

C18_Witness ==
    \E p \in pending : \E q \in pending :
        /\ p.pc = "done"
        /\ p.user \notin members
        /\ p.calls = 0 /\ p.notified = 0 /\ p.errors = 0
        /\ q.pc = "done"
        /\ q.user \in members
        /\ ~RoleExists(q.role)
        /\ q.calls = 0 /\ q.notified = 0 /\ q.errors = 0

\* C19: when the role removal fails at fire time the failure is logged and
\* the fire stops there: the entry has made its one removal call and never
\* makes another, no entry is added to the schedule, no message goes to the
\* member or to a channel, and the guild is left as it was.
C19_FailedRemovalStops ==
    [][/\ \A p \in pending : \A q \in pending' :
            (/\ q.id = p.id
             /\ q # p
             /\ p.pc = "remove"
             /\ q.remove_result = "raised")
               => /\ q.pc = "done"
                  /\ q.errors = p.errors + 1
                  /\ q.calls = 1
                  /\ q.notified = 0
                  /\ UNCHANGED <<members, roles, held, removals, cmd, modlog>>
       /\ \A q \in pending' : q.calls <= 1
       /\ {q.id : q \in pending'} = {p.id : p \in pending}
       /\ Cardinality(pending') = Cardinality(pending)]_vars

C19_Witness ==
    \E p \in pending :
        /\ p.pc = "done"
        /\ p.remove_result = "raised"
        /\ p.calls = 1
        /\ p.errors = 1
        /\ p.notified = 0
        /\ p.user \in members
        /\ p.role \in held[p.user]
        /\ now > p.due

\* C20: a scheduled unmute that fires after the role was already taken from
\* the member by hand is a no-op and not an error: the removal call, made
\* for a role the member does not hold and answered by the platform, leaves
\* the member's roles as they were and records no error, and the fire goes
\* on as after any removal.
C20_AlreadyRemovedIsNoOp ==
    [][\A p \in pending : \A q \in pending' :
          (/\ q.id = p.id
           /\ q # p
           /\ p.pc = "remove"
           /\ p.role \notin held[p.user]
           /\ q.remove_result = "ok")
             => /\ held' = held
                /\ q.errors = p.errors
                /\ q.errors = 0
                /\ q.pc = "notify"]_vars

C20_Witness ==
    \E p \in pending :
        /\ p.pc = "notify"
        /\ p.calls = 1
        /\ ~p.held_at_call
        /\ p.remove_result = "ok"
        /\ p.errors = 0
        /\ p.user \in members
        /\ held[p.user] = {}

\* C21: pending unmutes are not deduplicated and mutes of one member do not
\* exclude each other: the scheduling step of every mute that succeeded adds
\* an entry of its own (member, role, its own delay) to the pending unmutes
\* and leaves the entries already there, one for the same member included,
\* so that two mutes of a member leave two entries.
C21_EachMuteAddsItsOwnUnmute ==
    [][\A c \in Cmds :
          (cmd[c].pc = "schedule" /\ cmd'[c] # cmd[c])
             => /\ pending \subseteq pending'
                /\ Cardinality(pending') = Cardinality(pending) + 1
                /\ \E q \in pending' \ pending :
                      /\ q.user = cmd[c].target
                      /\ q.role = cmd[c].role
                      /\ q.duration_seconds = cmd[c].secs]_vars

\* the grammar [<n>d][<n>h][<n>m][<n>s], written down as such: a string is
\* cut into four parts, each empty or digits followed by its unit letter
Units == <<"d", "h", "m", "s">>

Lowered(s) ==
    [i \in 1..Len(s) |->
        IF s[i] = "D" THEN "d" ELSE IF s[i] = "H" THEN "h"
        ELSE IF s[i] = "M" THEN "m" ELSE IF s[i] = "S" THEN "s" ELSE s[i]]

Trimmed(s) ==
    LET ink == {i \in 1..Len(s) : s[i] # " "} IN
    IF ink = {} THEN <<>>
    ELSE SubSeq(s, CHOOSE i \in ink : \A j \in ink : i <= j,
                   CHOOSE i \in ink : \A j \in ink : i >= j)

IsPart(t, unit) ==
    \/ t = <<>>
    \/ /\ Len(t) >= 2
       /\ t[Len(t)] = unit
       /\ \A i \in 1..(Len(t) - 1) : t[i] \in Digits

RECURSIVE Decimal(_)
Decimal(t) ==
    IF t = <<>> THEN 0
    ELSE 10 * Decimal(SubSeq(t, 1, Len(t) - 1)) + DigitVal(t[Len(t)])

PartValue(t) == IF t = <<>> THEN 0 ELSE Decimal(SubSeq(t, 1, Len(t) - 1))

GrammarCuts(s) ==
    {cut \in (0..Len(s)) \X (0..Len(s)) \X (0..Len(s)) :
        /\ cut[1] <= cut[2] /\ cut[2] <= cut[3]
        /\ IsPart(SubSeq(s, 1, cut[1]), "d")
        /\ IsPart(SubSeq(s, cut[1] + 1, cut[2]), "h")
        /\ IsPart(SubSeq(s, cut[2] + 1, cut[3]), "m")
        /\ IsPart(SubSeq(s, cut[3] + 1, Len(s)), "s")}

InGrammar(s) == s # <<>> /\ GrammarCuts(s) # {}

GrammarSeconds(s) ==
    LET cut == CHOOSE x \in GrammarCuts(s) : TRUE IN
      86400 * PartValue(SubSeq(s, 1, cut[1]))
    + 3600 * PartValue(SubSeq(s, cut[1] + 1, cut[2]))
    + 60 * PartValue(SubSeq(s, cut[2] + 1, cut[3]))
    + PartValue(SubSeq(s, cut[3] + 1, Len(s)))

\* C22: for every argument that, lower-cased and trimmed, is of the form
\* [<n>d][<n>h][<n>m][<n>s] with at least one group, parse_duration returns
\* a duration of 86400*d + 3600*h + 60*m + s seconds, absent groups being 0.
C22_GrammarInputsGiveTotalSeconds ==
    (parsed.called /\ InGrammar(Trimmed(Lowered(duration_str))))
      => /\ parsed.returned = "timedelta"
         /\ parsed.secs = GrammarSeconds(Trimmed(Lowered(duration_str)))

C22_Witness ==
    /\ parsed.called
    /\ duration_str = <<"1", "d", "1", "H">>
    /\ parsed.secs = 90000

\* a digit directly followed by a unit letter somewhere in the string
HasPair(s) ==
    \E i \in 1..(Len(s) - 1) :
        s[i] \in Digits /\ s[i + 1] \in {"d", "h", "m", "s"}

\* C23: for the empty string, for a string without any digit-unit pair
\* ("abc") and for a bare number without unit ("90"), parse_duration returns
\* its error value None, not a duration.
C23_NoPairIsParseError ==
    (parsed.called /\ ~HasPair(Trimmed(Lowered(duration_str))))
      => parsed.returned = "None"

\* C24: a string that contains digit-unit pairs but is not as a whole of the
\* grammar (a unit twice, units out of order, other characters after or
\* between the pairs) makes parse_duration return its error value None; it
\* is not parsed as its longest valid prefix.
C24_WholeStringMustMatch ==
    (/\ parsed.called
     /\ HasPair(Trimmed(Lowered(duration_str)))
     /\ ~InGrammar(Trimmed(Lowered(duration_str))))
      => parsed.returned = "None"

\* C25: the audit log is append-only with unique ids: a step that changes it
\* appends exactly one record, leaves every record already there as it was,
\* and gives the new record an id no earlier record has.
C25_AuditLogAppendOnly ==
    [][modlog' # modlog
          => /\ Len(modlog') = Len(modlog) + 1
             /\ \A i \in 1..Len(modlog) : modlog'[i] = modlog[i]
             /\ \A i \in 1..Len(modlog) :
                   modlog'[Len(modlog')].id # modlog[i].id]_vars

C25_Witness ==
    /\ Len(modlog) = 2
    /\ modlog[1].id # modlog[2].id
    /\ modlog[1].user_id # modlog[2].user_id
    /\ modlog[1].action_type # modlog[2].action_type

\* C26: an audit record has a duration iff its action type is mute: the
\* records of warn, kick and ban have NULL there, and the record of a mute
\* has the duration parsed from the command's argument, in whole seconds.
C26_DurationOnlyForMute ==
    /\ \A i \in 1..Len(modlog) :
          modlog[i].duration # Null <=> modlog[i].action_type = "mute"
    /\ \A c \in Cmds :
          (cmd[c].kind = "mute" /\ cmd[c].infraction \in 1..Len(modlog))
            => /\ modlog[cmd[c].infraction].duration
                     = parse_duration(cmd[c].dstr).secs
               /\ InGrammar(Trimmed(Lowered(cmd[c].dstr)))
                     => modlog[cmd[c].infraction].duration
                           = GrammarSeconds(Trimmed(Lowered(cmd[c].dstr)))

C26_Witness ==
    /\ Len(modlog) = 2
    /\ modlog[1].action_type = "mute"
    /\ modlog[1].duration = 3600
    /\ modlog[2].action_type \in {"warn", "kick", "ban"}
    /\ modlog[2].duration = Null

FirstMuteIndex ==
    IF \E i \in 1..Len(roles) : roles[i].mute
    THEN CHOOSE i \in 1..Len(roles) :
            roles[i].mute /\ \A j \in 1..Len(roles) : roles[j].mute => i <= j
    ELSE 0

BotRoles == {i \in 1..Len(roles) : roles[i].byBot}

\* C28: with mutes that do not overlap the mute role is created at most
\* once: when the guild has a role with "mute" in its name the bot creates
\* none and a mute uses the first such role; otherwise the first mute
\* creates one role and every later mute uses that one.
C28_RoleCreatedAtMostOnce ==
    /\ Cardinality(BotRoles) <= 1
    /\ (\E i \in 1..Len(roles) : roles[i].mute /\ ~roles[i].byBot)
          => BotRoles = {}
    /\ \A c \in Cmds :
          (cmd[c].kind = "mute" /\ cmd[c].role # NoRole)
            => /\ FirstMuteIndex # 0
               /\ cmd[c].role = roles[FirstMuteIndex].id
    /\ \A c \in Cmds :
          (cmd[c].kind = "mute" /\ Has(cmd[c].trace, "create"))
            => /\ BotRoles = {FirstMuteIndex}
               /\ Cardinality({i \in 1..Len(modlog) :
                      modlog[i].action_type = "mute"})
                    <= IF Has(cmd[c].trace, "log") THEN 1 ELSE 0

\* the second of two mutes used the role the first one created
C28_Witness ==
    \E c \in Cmds :
        /\ MuteCompleted(c)
        /\ ~Has(cmd[c].trace, "create")
        /\ Cardinality(BotRoles) = 1
        /\ Len(roles) = 1
        /\ cmd[c].role = roles[1].id
        /\ Len(modlog) = 2

\* C29: role creation is not guarded against concurrency: a mute that found
\* no mute role when it started creates one when its create-role call
\* returns, whether or not another mute has created one in the meantime, so
\* two first-time mutes in flight together can leave two mute roles.
C29_CreationNotGuarded ==
    [][\A c \in Cmds :
          (cmd[c].pc = "createrole" /\ cmd'[c] # cmd[c]
              /\ ~Has(cmd'[c].trace, "caught_forbidden")
              /\ ~Has(cmd'[c].trace, "caught_error"))
             => /\ Len(roles') = Len(roles) + 1
                /\ \A i \in 1..Len(roles) : roles'[i] = roles[i]
                /\ roles'[Len(roles')].mute
                /\ roles'[Len(roles')].byBot
                /\ cmd'[c].role = roles'[Len(roles')].id
                /\ cmd'[c].pc = "perms"]_vars

\* both mutes created a role
C29_Witness ==
    /\ Len(roles) = 2
    /\ roles[1].mute /\ roles[1].byBot
    /\ roles[2].mute /\ roles[2].byBot
    /\ \E c \in Cmds :
          /\ cmd[c].kind = "mute"
          /\ cmd[c].role = roles[2].id
          /\ Has(cmd[c].trace, "create")

\* C30: an upsert of server configuration with a subset of fields changes
\* only those fields of that guild's row: every configuration field not
\* supplied keeps its previous value, or has its default when the row is
\* first created; the rows of other guilds are unchanged; and a call with no
\* recognised field changes nothing.
C30_UpsertChangesOnlySuppliedFields ==
    [][\A g \in Guilds, kwargs \in Kwargs :
          update_server_config(g, kwargs) =>
             LET old == server_config[g]
                 new == server_config'[g]
                 S == DOMAIN kwargs
             IN
             /\ \A h \in Guilds \ {g} : server_config'[h] = server_config[h]
             /\ S \cap valid_fields = {} => new = old
             /\ old.exists =>
                   /\ new.exists
                   /\ \A f \in valid_fields \ S : new[f] = old[f]
             /\ (~old.exists /\ new.exists) =>
                   \A f \in valid_fields \ S : new[f] = ColumnDefault[f]]_vars

\* a row last written by an update that supplied the log channel alone, with
\* the other two fields still at values an earlier call gave them, beside
\* another guild's row
C30_Witness ==
    \E g \in Guilds :
       /\ server_config[g].exists
       /\ server_config[g].last_keys = {"log_channel_id"}
       /\ server_config[g].prefix # ColumnDefault.prefix
       /\ server_config[g].mute_role_id # NullId
       /\ \E h \in Guilds \ {g} :
             /\ server_config[h].exists
             /\ server_config[h].mute_role_id = NullId

\* C31: command dispatch does not depend on the cache: every handled message
\* of a non-bot author that starts with the command prefix has had command
\* processing invoked, with the cache absent, present or failing, and no
\* message of a bot author has.
C31_DispatchIndependentOfCache ==
    \A m \in Msgs :
       inbox[m].pc = "handled" =>
          IF inbox[m].author_bot
          THEN ~inbox[m].process_commands
          ELSE inbox[m].prefixed => inbox[m].process_commands

\* C32: a duration component too large to be represented is a parse error:
\* a mute command that passed the authority checks with such a duration has
\* answered with the invalid-duration rejection and nothing else.
C32_OverflowIsParseError ==
    \A c \in Cmds :
       (/\ cmd[c].kind = "mute"
        /\ cmd[c].pc = "done"
        /\ AuthorityCheck(cmd[c].actor, cmd[c].target) = "ok"
        /\ ~parse_duration(cmd[c].dstr).ok)
          => /\ cmd[c].resp = <<"invalid_duration">>
             /\ cmd[c].trace = <<"reject">>

\* C33: whenever the mute command has added the mute role to a member, an
\* unmute for that member is scheduled on every path through the rest of the
\* command: a mute handler that added the role and has returned has left an
\* unmute pending for the member (or one has already run).
C33_RoleAddedImpliesUnmuteScheduled ==
    \A c \in Cmds :
       (/\ cmd[c].kind = "mute"
        /\ cmd[c].pc = "done"
        /\ Has(cmd[c].trace, "exec"))
          => \/ UnmutePending(cmd[c].target, cmd[c].role)
             \/ RemovalAttempted(cmd[c].target)

\* C34: a mute command sends at most one terminal response: a handler that
\* has sent the confirmation has sent no error response as well.
C34_AtMostOneTerminalResponse ==
    \A c \in Cmds :
       (cmd[c].kind = "mute" /\ Has(cmd[c].resp, "confirm"))
          => /\ ~Has(cmd[c].resp, "error")
             /\ ~Has(cmd[c].resp, "forbidden")
             /\ Count(cmd[c].resp, "confirm") = 1

\* C35: the mute command accepts every duration string that parses to a
\* value between 0 and 2,419,200 seconds inclusive and rejects exactly the
\* strings that do not parse or exceed the cap: a mute that passed the
\* authority checks with a string of the grammar worth at most the cap, a
\* zero duration such as "0s" included, was not answered with a duration
\* rejection, and one with a string beyond the cap was.
C35_ZeroDurationAccepted ==
    \A c \in Cmds :
       (/\ cmd[c].kind = "mute"
        /\ AuthorityCheck(cmd[c].actor, cmd[c].target) = "ok")
          => LET s == Trimmed(Lowered(cmd[c].dstr))
                 inRange == InGrammar(s) /\ GrammarSeconds(s) <= 2419200
             IN  /\ inRange => /\ ~Has(cmd[c].resp, "invalid_duration")
                               /\ ~Has(cmd[c].resp, "too_long")
                 /\ ~inRange => \/ cmd[c].resp = <<"invalid_duration">>
                                \/ cmd[c].resp = <<"too_long">>

\* C36: for a user whose record exists, k warn commands that each succeed
\* and do not overlap append exactly k warn audit records for the user and
\* raise the warnings counter by exactly k.  Step by step: a warn that
\* succeeded for such a user has made one audit write and one counter write;
\* its audit write adds one warn row for the user and leaves the counters;
\* its counter write raises the user's counter by one and leaves the audit
\* log; and no other step changes the user's warn rows or counter.
C36_SequentialWarnsCount ==
    [][/\ \A c \in Cmds :
            (/\ cmd'[c].kind = "warn"
             /\ cmd'[c].pc = "done"
             /\ Has(cmd'[c].resp, "confirm")
             /\ cmd'[c].read # NoRow)
               => /\ Count(cmd'[c].trace, "log") = 1
                  /\ Count(cmd'[c].trace, "write") = 1
       /\ \A c \in Cmds :
            (cmd[c].kind = "warn" /\ cmd[c].pc = "log" /\ cmd'[c] # cmd[c]
                /\ Has(cmd'[c].trace, "log"))
               => /\ Len(modlog') = Len(modlog) + 1
                  /\ WarnRows(cmd[c].target)' = WarnRows(cmd[c].target) + 1
                  /\ users' = users
       /\ \A c \in Cmds :
            (cmd[c].kind = "warn" /\ cmd[c].pc = "update"
                /\ cmd'[c] # cmd[c] /\ Has(cmd'[c].trace, "write"))
               => /\ users'[cmd[c].target] = users[cmd[c].target] + 1
                  /\ \A v \in Humans \ {cmd[c].target} : users'[v] = users[v]
                  /\ modlog' = modlog
       /\ \A u \in Humans :
            /\ WarnRows(u)' # WarnRows(u)
                  => \E c \in Cmds : /\ cmd[c].pc = "log"
                                     /\ cmd[c].target = u
                                     /\ Has(cmd'[c].trace, "log")
            /\ users'[u] # users[u]
                  => \E c \in Cmds : /\ cmd[c].pc = "update"
                                     /\ cmd[c].target = u
                                     /\ Has(cmd'[c].trace, "write")]_vars

\* three warns of the user with a record, one after the other, the last one
\* confirmed: three warn rows and a counter of three
C36_Witness ==
    \E c \in Cmds :
       /\ cmd[c].kind = "warn"
       /\ cmd[c].pc = "done"
       /\ Has(cmd[c].resp, "confirm")
       /\ cmd[c].read = 2
       /\ issued = 3
       /\ WarnRows(cmd[c].target) = 3
       /\ users[cmd[c].target] = 3

\* C37: whenever the mute command assigns a mute role that the bot itself
\* created, the overrides of every text and voice channel have been applied
\* to that role: a member holds a bot-created role only if the role has its
\* override on every channel.
C37_AssignedBotRoleHasOverrides ==
    \A u \in Humans : \A r \in held[u] :
       (r \in BotRoles)
          => \A i \in 1..Len(TextChannels \o VoiceChannels) :
                <<(TextChannels \o VoiceChannels)[i], r>> \in overrides

\* C38: if creating the mute role or applying its channel overrides fails,
\* the mute command aborts with exactly one error response: the step of a
\* mute handler in which create_role made no role, or set_permissions set no
\* override, ends the handler with the role error as its only response, the
\* target having received no role and no notification, with no audit record
\* written and no unmute scheduled.
C38_RoleSetupFailureAborts ==
    [][\A c \in Cmds :
          (/\ cmd[c].kind = "mute"
           /\ cmd'[c] # cmd[c]
           /\ \/ cmd[c].pc = "createrole" /\ roles' = roles
              \/ cmd[c].pc = "perms" /\ cmd[c].chans # <<>>
                                     /\ overrides' = overrides)
             => /\ cmd'[c].pc = "done"
                /\ cmd'[c].resp \in {<<"role_forbidden">>, <<"role_error">>}
                /\ \A e \in {"exec", "dm", "log", "confirm", "schedule"} :
                      ~Has(cmd'[c].trace, e)
                /\ UNCHANGED <<held, modlog, pending, muteUntil>>]_vars

\* a mute whose role was created and whose override could not be set, ended
\* with its one error; nobody holds a role, nothing logged, nothing pending
C38_Witness ==
    \E c \in Cmds :
       /\ cmd[c].kind = "mute"
       /\ cmd[c].pc = "done"
       /\ cmd[c].resp = <<"role_error">>
       /\ Has(cmd[c].trace, "create")
       /\ BotRoles # {}
       /\ overrides = {}
       /\ held[cmd[c].target] = {}
       /\ modlog = <<>>
       /\ pending = {}

====
